---- MODULE Spec2Model ----
(***************************************************************************)
(* convlog/src/tenhou.rs: the tenhou.net/6 log, its wire schema (RawLog),  *)
(* the conversion RawLog -> Log with the decoding of the "results" tail,   *)
(* and the view operations hide_names, filter_kyokus and split_by_kyoku.   *)
(*                                                                         *)
(* Strings are sequences of Unicode scalar values (a Rust String as its    *)
(* chars).  Arrays of the source are 0-based, sequences here are 1-based:  *)
(* seat i is index i + 1.                                                  *)
(***************************************************************************)
EXTENDS Integers, Sequences, FiniteSets, TLC

VARIABLES
    doc,        \* the JSON document handed to Log::from_json_str
    raw,        \* the RawLog the caller owns
    log,        \* the outcome of Log::from / Log::from_json_str
    views,      \* the Vec<RawPartialLog> returned by split_by_kyoku
    standalone, \* the RawLog rebuilt from one view
    wire,       \* one JSON take/discard element
    item,       \* the outcome of decoding wire as an ActionItem
    hist        \* the last operation and the values it started from

vars == <<doc, raw, log, views, standalone, wire, item, hist>>

----------------------------------------------------------------------------
(* Bounds of the model *)

MaxTail == 3

MaxLogs == 3

----------------------------------------------------------------------------
(* Integer widths *)

U8Max == 255

InU8(n) == 0 <= n /\ n <= U8Max

\* The integers of the model are TLC's, which are exactly the i32 range: every
\* JSON integer modelled fits i32 (and u64 when it is not negative).
InI32(n) == n \in Int

----------------------------------------------------------------------------
(* String literals of the source, as chars *)

\* 'A'
CharA == 65

\* "さん"
SanSuffix == <<12373, 12435>>

\* "和了", the win marker
HoraText == <<21644, 20102>>

\* "流局", a status that is not the win marker
RyukyokuText == <<27969, 23616>>

\* '東'
TonChar == 26481

\* '南'
NanChar == 21335

\* Tsumogiri(u8), // must be 60
Tsumogiri60 == 60

----------------------------------------------------------------------------
(* JSON values: a string, an integer number, an array of values *)

JStr(s) == [k |-> "str", s |-> s]

JNum(n) == [k |-> "num", n |-> n]

JArr(a) == [k |-> "arr", a |-> a]

JInts(ns) == JArr([i \in 1..Len(ns) |-> JNum(ns[i])])

\* serde_json::Value::as_u64: Some(n) for an integer in u64, None otherwise;
\* the callers .unwrap_or(0) and cast `as u8`
AsU64Or0AsU8(v) ==
    IF v.k = "num" /\ 0 <= v.n THEN v.n % (U8Max + 1) ELSE 0

----------------------------------------------------------------------------
(* json_scheme::ResultItem, #[serde(untagged)]: the variants are tried in  *)
(* declaration order: Status(String), ScoreDeltas([i32; 4]),               *)
(* HoraDetail(Vec<Value>); a value no variant accepts is an error.         *)

DeFail == [tag |-> "Err"]

IsI32x4(v) ==
    /\ v.k = "arr"
    /\ Len(v.a) = 4
    /\ \A i \in 1..4 : v.a[i].k = "num" /\ InI32(v.a[i].n)

\* DeResultItem with HoraDetail declared before ScoreDeltas
DeResultItemSwapped(v) ==
    IF v.k = "str" THEN [tag |-> "Status", s |-> v.s]
    ELSE IF v.k = "arr" THEN [tag |-> "HoraDetail", v |-> v.a]
    ELSE DeFail

DeResultItem(v) ==
    IF v.k = "str" THEN [tag |-> "Status", s |-> v.s]
    ELSE IF IsI32x4(v) THEN [tag |-> "ScoreDeltas", d |-> [i \in 1..4 |-> v.a[i].n]]
    ELSE IF v.k = "arr" THEN [tag |-> "HoraDetail", v |-> v.a]
    ELSE DeFail

----------------------------------------------------------------------------
(* crate::Pai: the tile atom, decoded from its numeric tile code *)

TileCodes == (11..19) \cup (21..29) \cup (31..39) \cup (41..47) \cup (51..53)

DePai(v) ==
    IF v.k = "num" /\ v.n \in TileCodes THEN [tag |-> "Pai", pai |-> v.n]
    ELSE DeFail

(* ActionItem, #[serde(untagged)]: Pai(Pai), Tsumogiri(u8), Naki(String),  *)
(* tried in declaration order                                              *)

DeActionItem(v) ==
    IF DePai(v).tag = "Pai" THEN DePai(v)
    ELSE IF v.k = "num" /\ InU8(v.n) THEN [tag |-> "Tsumogiri", n |-> v.n]
    ELSE IF v.k = "str" THEN [tag |-> "Naki", s |-> v.s]
    ELSE DeFail

----------------------------------------------------------------------------
(* Deserialization of the wire schema (serde, serde_tuple) *)

Failed(x) == x.tag = "Err"

Ok(x) == [tag |-> "Ok", val |-> x]

\* a JSON array decoded element by element into a Vec; the first failure fails it
DeVec(v, De(_)) ==
    IF v.k # "arr" THEN DeFail
    ELSE IF \E i \in 1..Len(v.a) : Failed(De(v.a[i])) THEN DeFail
    ELSE Ok([i \in 1..Len(v.a) |-> De(v.a[i])])

DeU8(v) == IF v.k = "num" /\ InU8(v.n) THEN Ok(v.n) ELSE DeFail

DeI32(v) == IF v.k = "num" /\ InI32(v.n) THEN Ok(v.n) ELSE DeFail

Vals(r) == [i \in 1..Len(r.val) |-> r.val[i].val]

\* kyoku::Meta, a 3-tuple of u8
DeMeta(v) ==
    LET r == DeVec(v, DeU8) IN
    IF Failed(r) \/ Len(r.val) # 3 THEN DeFail
    ELSE Ok([kyoku_num |-> r.val[1].val, honba |-> r.val[2].val,
             kyotaku |-> r.val[3].val])

\* [i32; 4]
DeScoreboard(v) ==
    LET r == DeVec(v, DeI32) IN
    IF Failed(r) \/ Len(r.val) # 4 THEN DeFail ELSE Ok(Vals(r))

\* Vec<Pai>
DePaiVec(v) ==
    LET r == DeVec(v, DePai) IN
    IF Failed(r) THEN DeFail ELSE Ok([i \in 1..Len(r.val) |-> r.val[i].pai])

\* [Pai; 13]
DeHaipai(v) ==
    LET r == DePaiVec(v) IN
    IF Failed(r) \/ Len(r.val) # 13 THEN DeFail ELSE r

\* Vec<ActionItem>
DeActions(v) == DeVec(v, DeActionItem)

\* Vec<ResultItem>
DeResults(v) == DeVec(v, DeResultItem)

KyokuArity == 17

KyokuOfFields(f) ==
    IF \E i \in 1..KyokuArity : Failed(f[i]) THEN DeFail
    ELSE Ok([meta |-> f[1].val, scoreboard |-> f[2].val,
             dora_indicators |-> f[3].val, ura_indicators |-> f[4].val,
             haipai_0 |-> f[5].val, takes_0 |-> f[6].val, discards_0 |-> f[7].val,
             haipai_1 |-> f[8].val, takes_1 |-> f[9].val, discards_1 |-> f[10].val,
             haipai_2 |-> f[11].val, takes_2 |-> f[12].val, discards_2 |-> f[13].val,
             haipai_3 |-> f[14].val, takes_3 |-> f[15].val, discards_3 |-> f[16].val,
             results |-> f[17].val])

DeKyoku(v) ==
    IF v.k # "arr" \/ Len(v.a) # KyokuArity THEN DeFail
    ELSE KyokuOfFields(
            << DeMeta(v.a[1]), DeScoreboard(v.a[2]), DePaiVec(v.a[3]), DePaiVec(v.a[4]),
               DeHaipai(v.a[5]), DeActions(v.a[6]), DeActions(v.a[7]),
               DeHaipai(v.a[8]), DeActions(v.a[9]), DeActions(v.a[10]),
               DeHaipai(v.a[11]), DeActions(v.a[12]), DeActions(v.a[13]),
               DeHaipai(v.a[14]), DeActions(v.a[15]), DeActions(v.a[16]),
               DeResults(v.a[17]) >>)

None == [tag |-> "None"]

\* json_scheme::Rule, #[serde(default)]
DefaultRule == [disp |-> <<>>, aka |-> 0, aka51 |-> 0, aka52 |-> 0, aka53 |-> 0]

\* json_scheme::Log: "log", "name" and "rule" of the top-level object; the
\* optional pass-through fields are absent from the documents modelled
DeRawLog(d) ==
    LET ks == [i \in 1..Len(d.log) |-> DeKyoku(d.log[i])] IN
    IF \/ \E i \in 1..Len(ks) : Failed(ks[i])
       \/ Len(d.name) # 4
       \/ \E c \in {d.rule.aka, d.rule.aka51, d.rule.aka52, d.rule.aka53} : ~InU8(c)
    THEN DeFail
    ELSE Ok([logs |-> [i \in 1..Len(ks) |-> ks[i].val],
             names |-> d.name, rule |-> d.rule,
             ratingc |-> None, lobby |-> None, dan |-> None, rate |-> None,
             sx |-> None])

----------------------------------------------------------------------------
(* impl From<RawLog> for Log *)

Panic == [st |-> "panic"]

Builds == {"debug", "release"}

U8(n) == [st |-> "ok", v |-> n]

\* u8 + u8: an overflow panics in a build with overflow checks (debug) and
\* wraps in a build without them (release)
AddU8(a, b, build) ==
    IF a = Panic THEN Panic
    ELSE IF a.v + b <= U8Max THEN U8(a.v + b)
    ELSE IF build = "debug" THEN Panic
    ELSE U8((a.v + b) % (U8Max + 1))

\* rule.aka + rule.aka51 + rule.aka52 + rule.aka53, left to right
AkaSum(rule, build) ==
    AddU8(AddU8(AddU8(U8(rule.aka), rule.aka51, build), rule.aka52, build),
          rule.aka53, build)

\* rule.disp.contains('東')
GameLengthOf(rule) ==
    IF \E i \in 1..Len(rule.disp) : rule.disp[i] = TonChar THEN "Tonpuu"
    ELSE "Hanchan"

ZeroDeltas == <<0, 0, 0, 0>>

Ryukyoku(d) == [tag |-> "Ryukyoku", score_deltas |-> d]

Hora(ds) == [tag |-> "Hora", details |-> ds]

\* log.results[1..].chunks_exact(2): chunk j holds the 0-based elements
\* 2j - 1 and 2j, a leftover element belongs to no chunk
ChunksExact2(results) ==
    [j \in 1..((Len(results) - 1) \div 2) |-> <<results[2 * j], results[2 * j + 1]>>]

PairMatches(p) == p[1].tag = "ScoreDeltas" /\ p[2].tag = "HoraDetail"

\* who_target_tuple[0], who_target_tuple[1]: an index out of bounds panics
PairPanics(p) == PairMatches(p) /\ Len(p[2].v) < 2

HoraDetailOf(p) ==
    [score_deltas |-> p[1].d,
     who |-> AsU64Or0AsU8(p[2].v[1]),
     target |-> AsU64Or0AsU8(p[2].v[2])]

\* .filter_map(..).collect() over the chunks from the i-th on
RECURSIVE FilterMapDetails(_, _)
FilterMapDetails(pairs, i) ==
    IF i > Len(pairs) THEN <<>>
    ELSE IF PairMatches(pairs[i])
         THEN <<HoraDetailOf(pairs[i])>> \o FilterMapDetails(pairs, i + 1)
         ELSE FilterMapDetails(pairs, i + 1)

\* EndStatusOf with the draw branch reading element 1 whatever element 0 is
EndStatusOfAnyHead(results) ==
    IF Len(results) >= 1 /\ results[1].tag = "Status" /\ results[1].s = HoraText
    THEN IF \E j \in 1..Len(ChunksExact2(results)) : PairPanics(ChunksExact2(results)[j])
         THEN Panic
         ELSE Hora(FilterMapDetails(ChunksExact2(results), 1))
    ELSE IF Len(results) >= 2 /\ results[2].tag = "ScoreDeltas"
         THEN Ryukyoku(results[2].d)
         ELSE Ryukyoku(ZeroDeltas)

\* the end_status of one round, or Panic
EndStatusOf(results) ==
    IF Len(results) >= 1 /\ results[1].tag = "Status"
    THEN IF results[1].s = HoraText
         THEN LET pairs == ChunksExact2(results) IN
              IF \E j \in 1..Len(pairs) : PairPanics(pairs[j]) THEN Panic
              ELSE Hora(FilterMapDetails(pairs, 1))
         ELSE IF Len(results) >= 2 /\ results[2].tag = "ScoreDeltas"
              THEN Ryukyoku(results[2].d)
              ELSE Ryukyoku(ZeroDeltas)
    ELSE Ryukyoku(ZeroDeltas) \* default

ActionTable(h, t, d) == [haipai |-> h, takes |-> t, discards |-> d]

\* ActionTablesOf with the takes and discards of seats 1 and 2 exchanged
ActionTablesOfCrossed(l) ==
    << ActionTable(l.haipai_0, l.takes_0, l.discards_0),
       ActionTable(l.haipai_1, l.takes_2, l.discards_2),
       ActionTable(l.haipai_2, l.takes_1, l.discards_1),
       ActionTable(l.haipai_3, l.takes_3, l.discards_3) >>

ActionTablesOf(l) ==
    << ActionTable(l.haipai_0, l.takes_0, l.discards_0),
       ActionTable(l.haipai_1, l.takes_1, l.discards_1),
       ActionTable(l.haipai_2, l.takes_2, l.discards_2),
       ActionTable(l.haipai_3, l.takes_3, l.discards_3) >>

\* the closure mapped over logs: one Kyoku, or Panic
KyokuOf(l) ==
    LET es == EndStatusOf(l.results) IN
    IF es = Panic THEN Panic
    ELSE [meta |-> l.meta, scoreboard |-> l.scoreboard,
          dora_indicators |-> l.dora_indicators,
          ura_indicators |-> l.ura_indicators,
          action_tables |-> ActionTablesOf(l),
          end_status |-> es]

KyokusOf(logs) == [i \in 1..Len(logs) |-> KyokuOf(logs[i])]

FromRawLog(r, build) ==
    LET sum == AkaSum(r.rule, build)
        ks == KyokusOf(r.logs)
    IN IF sum = Panic \/ \E i \in 1..Len(ks) : ks[i] = Panic THEN Panic
       ELSE [st |-> "ok",
             val |-> [names |-> r.names, game_length |-> GameLengthOf(r.rule),
                      has_aka |-> (sum.v > 0), kyokus |-> ks]]

(* Log::from_json_str *)

ParseError == [st |-> "err"]

from_json_str(d, build) ==
    LET r == DeRawLog(d) IN
    IF Failed(r) THEN ParseError ELSE FromRawLog(r.val, build)

----------------------------------------------------------------------------
(* crate::KyokuFilter: the inclusion predicate, as the set of the          *)
(* (kyoku_num, honba) pairs it accepts                                     *)

KyokuFilterTest(kf, kyoku_num, honba) == <<kyoku_num, honba>> \in kf

(* Vec::retain(|l| kyoku_filter.test(l.meta.kyoku_num, l.meta.honba)) *)

\* retain that stops keeping at the first round the filter rejects
RECURSIVE RetainPrefix(_, _)
RetainPrefix(s, kf) ==
    IF s = <<>> THEN <<>>
    ELSE IF KyokuFilterTest(kf, Head(s).meta.kyoku_num, Head(s).meta.honba)
         THEN <<Head(s)>> \o RetainPrefix(Tail(s), kf)
         ELSE <<>>

RECURSIVE Retain(_, _)
Retain(s, kf) ==
    IF s = <<>> THEN <<>>
    ELSE IF KyokuFilterTest(kf, Head(s).meta.kyoku_num, Head(s).meta.honba)
         THEN <<Head(s)>> \o Retain(Tail(s), kf)
         ELSE Retain(Tail(s), kf)

RawLog_filter_kyokus(r, kf) == [r EXCEPT !.logs = Retain(r.logs, kf)]

Log_filter_kyokus(l, kf) == [l EXCEPT !.kyokus = Retain(l.kyokus, kf)]

(* RawLog::hide_names *)

\* 'A'..='D'
Aliases == [i \in 1..4 |-> CharA + (i - 1)]

\* hide_names without name.clear()
hide_names_appending(r) ==
    [r EXCEPT !.names =
        [i \in 1..Len(r.names) |->
            IF i <= Len(Aliases) THEN (r.names[i] \o <<Aliases[i]>>) \o SanSuffix
            ELSE r.names[i]]]

\* names.iter_mut().zip('A'..='D'): clear, push(alias), push_str("さん")
hide_names(r) ==
    [r EXCEPT !.names =
        [i \in 1..Len(r.names) |->
            IF i <= Len(Aliases) THEN (<<>> \o <<Aliases[i]>>) \o SanSuffix
            ELSE r.names[i]]]

(* RawLog::split_by_kyoku *)

Min(a, b) == IF a <= b THEN a ELSE b

\* slice.chunks(n)
Chunks(s, n) ==
    [j \in 1..((Len(s) + n - 1) \div n) |->
        SubSeq(s, (j - 1) * n + 1, Min(j * n, Len(s)))]

\* RawPartialLog { parent: self, logs: kyoku }: parent is a shared borrow of
\* the RawLog, which cannot change while the view lives
RawPartialLog(r, chunk) == [parent |-> r, logs |-> chunk]

\* split_by_kyoku with chunks(2)
split_by_kyoku_pairs(r) ==
    [j \in 1..Len(Chunks(r.logs, 2)) |-> RawPartialLog(r, Chunks(r.logs, 2)[j])]

split_by_kyoku(r) ==
    [j \in 1..Len(Chunks(r.logs, 1)) |-> RawPartialLog(r, Chunks(r.logs, 1)[j])]

(* impl From<RawPartialLog<'_>> for RawLog *)

\* RawLog { logs: partial_log.logs.to_vec(), ..partial_log.parent.clone() }
FromRawPartialLog(p) == [p.parent EXCEPT !.logs = p.logs]

----------------------------------------------------------------------------
(* Documents: one round record whose results tail varies *)

Hand(off) == JInts([j \in 1..13 |-> 11 + ((off + j) % 9) + 10 * ((off + j) % 3)])

\* "c11", some call string
NakiText == <<99, 49, 49>>

\* the 17 positional elements of a round record with the given results tail
RoundRecord(num, honba, v, tail) ==
    JArr(<< JInts(<<num, honba, v>>),
            JInts(<<25000 + 100 * v, 25000, 25000 - 100 * v, 25000>>),
            JInts(<<11 + v>>), JInts(<<>>),
            Hand(v), JInts(<<21 + v, Tsumogiri60>>), JInts(<<Tsumogiri60, 41>>),
            Hand(v + 1), JInts(<<31>>), JArr(<<JStr(NakiText)>>),
            Hand(v + 2), JInts(<<>>), JInts(<<Tsumogiri60>>),
            Hand(v + 3), JArr(<<JStr(NakiText), JNum(47)>>), JInts(<<51 + v, 12, 13>>),
            JArr(tail) >>)

Names1 == << <<110, 49>>, <<>>, <<21335, 21335, 21335>>, <<68>> \o SanSuffix >>

DocOf(tail) ==
    [log |-> <<RoundRecord(0, 0, 0, tail)>>, name |-> Names1, rule |-> DefaultRule]

TailOf(d) == d.log[1].a[KyokuArity].a

\* the JSON values a results tail is built from
ResultSamples ==
    { JStr(HoraText), JStr(RyukyokuText), JNum(7),
      JInts(<<1000, -1000, 0, 0>>), JInts(<<-500, 0, 500, 0>>),
      JArr(<<JNum(2), JNum(0), JNum(1), JStr(NakiText)>>),
      JInts(<<1, 3>>), JInts(<<0, 1, 2, 3>>), JInts(<<3>>),
      JInts(<<U8Max + 2, -1>>) }

NotRun == [st |-> "none"]

NoViews == [live |-> FALSE, v |-> <<>>]

InitDecode ==
    /\ doc = DocOf(<<>>)
    /\ log = NotRun
    /\ raw = None
    /\ views = NoViews
    /\ standalone = None
    /\ wire = None
    /\ item = None
    /\ hist = [op |-> "init"]

\* the caller's input grows by one results element
PushResult(v) ==
    /\ log = NotRun
    /\ Len(TailOf(doc)) < MaxTail
    /\ doc' = DocOf(Append(TailOf(doc), v))
    /\ UNCHANGED <<raw, log, views, standalone, wire, item, hist>>

\* Log::from_json_str(doc)
FromJsonStr(build) ==
    /\ log = NotRun
    /\ log' = from_json_str(doc, build)
    /\ hist' = [op |-> "from_json_str"]
    /\ UNCHANGED <<doc, raw, views, standalone, wire, item>>

NextDecode ==
    \/ \E v \in ResultSamples : PushResult(v)
    \/ \E b \in Builds : FromJsonStr(b)

SpecDecode == InitDecode /\ [][NextDecode]_vars

----------------------------------------------------------------------------
(* The results tail: what Log::from_json_str makes of it *)

Parsed == hist.op = "from_json_str"

ResultsTail == TailOf(doc)

\* the EndStatus of the round decoded, when there is one
DecodedEndStatus == log.val.kyokus[1].end_status

IsStrOrArr(v) == v.k \in {"str", "arr"}

\* a JSON array of 4 (i32) integers
IsDeltas(v) ==
    v.k = "arr" /\ Len(v.a) = 4 /\ \A i \in 1..4 : v.a[i].k = "num"

IntsOf(v) == [i \in 1..Len(v.a) |-> v.a[i].n]

\* a JSON array whose first two elements are integers in 0..255
IsInfo(v) ==
    /\ v.k = "arr"
    /\ Len(v.a) >= 2
    /\ \A i \in 1..2 : v.a[i].k = "num" /\ InU8(v.a[i].n)

NPairs(t) == (Len(t) - 1) \div 2

\* the win marker, then complete (deltas, info) pairs, then at most one
\* leftover string or array
IsWinTail(t) ==
    /\ Len(t) >= 1
    /\ t[1] = JStr(HoraText)
    /\ \A j \in 1..NPairs(t) : IsDeltas(t[2 * j]) /\ IsInfo(t[2 * j + 1])
    /\ \A i \in 1..Len(t) : IsStrOrArr(t[i])

\* C1: a results tail of the win marker and k pairs (deltas_j, info_j), with at
\* most one leftover element, decodes to Hora with exactly k details, the j-th
\* holding deltas_j, who = info_j[0] and target = info_j[1].
C1_WinBranchAsClaimed ==
    (Parsed /\ IsWinTail(ResultsTail)) =>
        /\ log.st = "ok"
        /\ DecodedEndStatus =
             Hora([j \in 1..NPairs(ResultsTail) |->
                     [score_deltas |-> IntsOf(ResultsTail[2 * j]),
                      who |-> ResultsTail[2 * j + 1].a[1].n,
                      target |-> ResultsTail[2 * j + 1].a[2].n]])

IsDrawTail(t) ==
    /\ Len(t) >= 1
    /\ t[1].k = "str"
    /\ t[1].s # HoraText
    /\ \A i \in 1..Len(t) : IsStrOrArr(t[i])

\* C2: a results tail whose element 0 is a string other than the win marker
\* decodes to Ryukyoku with the deltas of element 1 when element 1 is an array
\* of 4 integers, and with [0,0,0,0] when it is absent or anything else; the
\* elements after index 1 play no part.
C2_DrawBranch ==
    (Parsed /\ IsDrawTail(ResultsTail)) =>
        /\ log.st = "ok"
        /\ DecodedEndStatus =
             Ryukyoku(IF Len(ResultsTail) >= 2 /\ IsDeltas(ResultsTail[2])
                      THEN IntsOf(ResultsTail[2]) ELSE ZeroDeltas)

C2_Witness ==
    /\ Parsed
    /\ IsDrawTail(ResultsTail)
    /\ Len(ResultsTail) >= 3
    /\ IsDeltas(ResultsTail[2])
    /\ IsDeltas(ResultsTail[3])
    /\ ResultsTail[3] # ResultsTail[2]
    /\ log.st = "ok"
    /\ DecodedEndStatus.score_deltas # ZeroDeltas

\* C3 as stated: a tail whose element 0 is not a string (an array, a number,
\* or no element at all) makes the parse report an error.
C3_NonStringHeadIsError ==
    (Parsed /\ (Len(ResultsTail) = 0 \/ ResultsTail[1].k # "str")) => log.st = "err"

\* C3 amended: a tail whose element 0 is a number makes the parse report an
\* error and yields no Kyoku; an empty tail, or one whose element 0 is an
\* array, is no error: with every element a string or an array the round
\* decodes to a Kyoku whose EndStatus is Ryukyoku with all-zero deltas.
C3_HeadShapes ==
    Parsed =>
        /\ (Len(ResultsTail) >= 1 /\ ResultsTail[1].k = "num") => log.st = "err"
        /\ ( /\ Len(ResultsTail) = 0 \/ ResultsTail[1].k = "arr"
             /\ \A i \in 1..Len(ResultsTail) : IsStrOrArr(ResultsTail[i]) )
           => (log.st = "ok" /\ DecodedEndStatus = Ryukyoku(ZeroDeltas))

C3_Witness ==
    /\ Parsed
    /\ Len(ResultsTail) >= 2
    /\ IsDeltas(ResultsTail[1])
    /\ IsDeltas(ResultsTail[2])
    /\ log.st = "ok"
    /\ DecodedEndStatus = Ryukyoku(ZeroDeltas)

\* C4: with a string at element 0, no shape of the later elements makes
\* Log::from_json_str fail, by an error or by a panic.
C4_NeverFailsAfterStatus ==
    (Parsed /\ Len(ResultsTail) >= 1 /\ ResultsTail[1].k = "str") => log.st = "ok"

----------------------------------------------------------------------------
(* The view operations and the conversion, on RawLogs of up to MaxLogs rounds *)

RawKyoku(num, honba, v, tail) == DeKyoku(RoundRecord(num, honba, v, tail)).val

RawKyokuSamples ==
    { RawKyoku(1, 0, 0, <<JStr(RyukyokuText), JInts(<<1500, -500, -500, -500>>)>>),
      RawKyoku(1, 1, 1, <<JStr(HoraText), JInts(<<1000, -1000, 0, 0>>),
                            JArr(<<JNum(0), JNum(1), JNum(0), JStr(NakiText)>>)>>),
      RawKyoku(2, 0, 2, <<JStr(RyukyokuText)>>),
      RawKyoku(1, 0, 3, <<>>) }

\* the (kyoku_num, honba) pairs of the samples, and one more
FilterKeys == {<<1, 0>>, <<1, 1>>, <<2, 0>>, <<3, 0>>}

KyokuFilters == SUBSET FilterKeys

Names2 == << (<<65>> \o SanSuffix), <<120>>, <<121, 122>>, <<>> >>

Some(x) == [tag |-> "Some", val |-> x]

\* the fields of a RawLog other than its rounds
Headers ==
    { [names |-> Names1, rule |-> [DefaultRule EXCEPT !.disp = <<NanChar, 50>>],
       ratingc |-> None, lobby |-> None, dan |-> None, rate |-> None, sx |-> None],
      [names |-> Names2,
       rule |-> [disp |-> <<TonChar, 49>>, aka |-> 0, aka51 |-> 1, aka52 |-> 1, aka53 |-> 1],
       ratingc |-> Some(<<80, 70>>), lobby |-> Some(0), dan |-> Some(<<<<49>>, <<50>>>>),
       rate |-> Some(<<1500, 1601>>), sx |-> Some(<<<<77>>, <<70>>>>)] }

SeqsUpTo(S, n) == UNION {[1..m -> S] : m \in 0..n}

RawLogOf(h, logs) ==
    [logs |-> logs, names |-> h.names, rule |-> h.rule, ratingc |-> h.ratingc,
     lobby |-> h.lobby, dan |-> h.dan, rate |-> h.rate, sx |-> h.sx]

InitView ==
    /\ raw \in {RawLogOf(h, logs) : h \in Headers, logs \in SeqsUpTo(RawKyokuSamples, MaxLogs)}
    /\ doc = None
    /\ log = NotRun
    /\ views = NoViews
    /\ standalone = None
    /\ wire = None
    /\ item = None
    /\ hist = [op |-> "init"]

\* an exclusive borrow (&mut self) or a move of raw needs no view alive
RawIsFree == raw # None /\ ~views.live

\* raw.filter_kyokus(&kf)
RawFilterKyokus(kf) ==
    /\ RawIsFree
    /\ raw' = RawLog_filter_kyokus(raw, kf)
    /\ hist' = [op |-> "RawLog::filter_kyokus", before |-> raw, kf |-> kf]
    /\ UNCHANGED <<doc, log, views, standalone, wire, item>>

\* raw.hide_names()
HideNames ==
    /\ RawIsFree
    /\ raw' = hide_names(raw)
    /\ hist' = [op |-> "hide_names", before |-> raw]
    /\ UNCHANGED <<doc, log, views, standalone, wire, item>>

\* let views = raw.split_by_kyoku()
SplitByKyoku ==
    /\ raw # None
    /\ views' = [live |-> TRUE, v |-> split_by_kyoku(raw)]
    /\ hist' = [op |-> "split_by_kyoku", before |-> raw]
    /\ UNCHANGED <<doc, raw, log, standalone, wire, item>>

\* RawLog::from(view) for the i-th view
FromPartial(i) ==
    /\ views.live
    /\ i \in 1..Len(views.v)
    /\ standalone' = FromRawPartialLog(views.v[i])
    /\ hist' = [op |-> "from_partial", before |-> raw, index |-> i]
    /\ UNCHANGED <<doc, raw, log, views, wire, item>>

\* the views and the log rebuilt from them go out of scope
DropViews ==
    /\ views.live
    /\ views' = NoViews
    /\ standalone' = None
    /\ hist' = [op |-> "drop"]
    /\ UNCHANGED <<doc, raw, log, wire, item>>

\* Log::from(raw): raw is moved into the conversion
ConvertLog(build) ==
    /\ RawIsFree
    /\ log = NotRun
    /\ log' = FromRawLog(raw, build)
    /\ raw' = None
    /\ hist' = [op |-> "from", before |-> raw]
    /\ UNCHANGED <<doc, views, standalone, wire, item>>

\* log.filter_kyokus(&kf)
LogFilterKyokus(kf) ==
    /\ log.st = "ok"
    /\ log' = [log EXCEPT !.val = Log_filter_kyokus(log.val, kf)]
    /\ hist' = [op |-> "Log::filter_kyokus", before |-> log.val, kf |-> kf]
    /\ UNCHANGED <<doc, raw, views, standalone, wire, item>>

NextView ==
    \/ \E kf \in KyokuFilters : RawFilterKyokus(kf)
    \/ HideNames
    \/ SplitByKyoku
    \/ \E i \in 1..MaxLogs : FromPartial(i)
    \/ DropViews
    \/ \E b \in Builds : ConvertLog(b)
    \/ \E kf \in KyokuFilters : LogFilterKyokus(kf)

SpecView == InitView /\ [][NextView]_vars

----------------------------------------------------------------------------
(* The red-tile counters of the rule *)

U8Samples == {0, 1, 127, 128, U8Max}

RuleOf(a, a1, a2, a3) ==
    [disp |-> <<TonChar>>, aka |-> a, aka51 |-> a1, aka52 |-> a2, aka53 |-> a3]

InitRule ==
    /\ \E a \in U8Samples, a1 \in U8Samples, a2 \in U8Samples, a3 \in U8Samples :
          raw = [RawLogOf(CHOOSE h \in Headers : h.names = Names1, <<>>)
                    EXCEPT !.rule = RuleOf(a, a1, a2, a3)]
    /\ doc = None
    /\ log = NotRun
    /\ views = NoViews
    /\ standalone = None
    /\ wire = None
    /\ item = None
    /\ hist = [op |-> "init"]

NextRule == \E b \in Builds : ConvertLog(b)

SpecRule == InitRule /\ [][NextRule]_vars

----------------------------------------------------------------------------
(* One take/discard element *)

WireSamples ==
    {JNum(n) : n \in TileCodes \cup (54..(U8Max + 1)) \cup {-1}}
        \cup {JStr(NakiText), JStr(<<>>), JArr(<<>>)}

InitAction ==
    /\ wire \in WireSamples
    /\ item = None
    /\ doc = None
    /\ raw = None
    /\ log = NotRun
    /\ views = NoViews
    /\ standalone = None
    /\ hist = [op |-> "init"]

\* the element is deserialized as an ActionItem
DecodeAction ==
    /\ item = None
    /\ item' = DeActionItem(wire)
    /\ hist' = [op |-> "ActionItem"]
    /\ UNCHANGED <<doc, raw, log, views, standalone, wire>>

NextAction == DecodeAction

SpecAction == InitAction /\ [][NextAction]_vars

----------------------------------------------------------------------------
(* filter_kyokus *)

FilterDone == hist.op \in {"RawLog::filter_kyokus", "Log::filter_kyokus"}

OnRaw == hist.op = "RawLog::filter_kyokus"

RoundsBefore == IF OnRaw THEN hist.before.logs ELSE hist.before.kyokus

RoundsAfter == IF OnRaw THEN raw.logs ELSE log.val.kyokus

\* the positions of the rounds the predicate accepts
KeptIdx ==
    {i \in 1..Len(RoundsBefore) :
        <<RoundsBefore[i].meta.kyoku_num, RoundsBefore[i].meta.honba>> \in hist.kf}

\* the j-th smallest of them
NthKept(j) == CHOOSE i \in KeptIdx : Cardinality({m \in KeptIdx : m <= i}) = j

\* C5: after filter_kyokus, on a RawLog or a Log, the rounds are exactly the
\* rounds the predicate accepts, in their order before the call and each
\* unchanged; every other field is unchanged; filtering again with the same
\* predicate changes nothing.
C5_FilterKyokus ==
    FilterDone =>
        /\ Len(RoundsAfter) = Cardinality(KeptIdx)
        /\ \A j \in 1..Len(RoundsAfter) : RoundsAfter[j] = RoundsBefore[NthKept(j)]
        /\ IF OnRaw
           THEN /\ [raw EXCEPT !.logs = <<>>] = [hist.before EXCEPT !.logs = <<>>]
                /\ RawLog_filter_kyokus(raw, hist.kf) = raw
           ELSE /\ [log.val EXCEPT !.kyokus = <<>>] = [hist.before EXCEPT !.kyokus = <<>>]
                /\ Log_filter_kyokus(log.val, hist.kf) = log.val

C5_Witness ==
    /\ hist.op = "Log::filter_kyokus"
    /\ Len(RoundsBefore) = 3
    /\ KeptIdx = {1, 3}
    /\ RoundsAfter[1] # RoundsAfter[2]

(* hide_names *)

\* C6: after hide_names there are 4 names, the name of seat i is the letter
\* 'A' + i followed by "さん" whatever it was before, everything else is
\* unchanged, and hiding again changes nothing.
C6_HideNames ==
    hist.op = "hide_names" =>
        /\ Len(raw.names) = 4
        /\ \A i \in 0..3 : raw.names[i + 1] = <<CharA + i>> \o SanSuffix
        /\ [raw EXCEPT !.names = <<>>] = [hist.before EXCEPT !.names = <<>>]
        /\ hide_names(raw) = raw

\* hide_names applied to names already hidden
C6_Witness ==
    /\ hist.op = "hide_names"
    /\ hist.before.names = raw.names
    /\ raw.logs # <<>>

(* split_by_kyoku and From<RawPartialLog> *)

OtherFields(r) == [r EXCEPT !.logs = <<>>]

\* C7: split_by_kyoku gives one view per round, the i-th holding exactly the
\* parent's i-th round; the RawLog rebuilt from view i has the parent's names,
\* rule and pass-through fields and that one round; the parent is unchanged.
C7_SplitByKyoku ==
    /\ views.live =>
        /\ Len(views.v) = Len(raw.logs)
        /\ \A i \in 1..Len(views.v) :
              views.v[i].logs = <<raw.logs[i]>> /\ views.v[i].parent = raw
    /\ hist.op = "from_partial" =>
        /\ OtherFields(standalone) = OtherFields(raw)
        /\ standalone.logs = <<raw.logs[hist.index]>>
    /\ hist.op \in {"split_by_kyoku", "from_partial"} => raw = hist.before

C7_Witness ==
    /\ hist.op = "from_partial"
    /\ Len(raw.logs) = 3
    /\ hist.index = 2
    /\ raw.logs[2] # raw.logs[1]
    /\ raw.logs[2] # raw.logs[3]
    /\ raw.ratingc # None

(* The seat grouping of the conversion *)

\* the triple of seat i in a raw round record
SeatFields(l, i) ==
    CASE i = 0 -> <<l.haipai_0, l.takes_0, l.discards_0>>
      [] i = 1 -> <<l.haipai_1, l.takes_1, l.discards_1>>
      [] i = 2 -> <<l.haipai_2, l.takes_2, l.discards_2>>
      [] i = 3 -> <<l.haipai_3, l.takes_3, l.discards_3>>

\* C9: the j-th Kyoku of the Log comes from the j-th raw round record: its
\* action_tables[i] holds haipai_i (13 tiles), takes_i and discards_i of that
\* record, and meta, scoreboard, dora and ura indicators are copied.
C9_SeatGrouping ==
    (hist.op = "from" /\ log.st = "ok") =>
        /\ Len(log.val.kyokus) = Len(hist.before.logs)
        /\ \A j \in 1..Len(log.val.kyokus) :
             LET k == log.val.kyokus[j]
                 l == hist.before.logs[j]
             IN /\ Len(k.action_tables) = 4
                /\ \A i \in 0..3 :
                     /\ k.action_tables[i + 1].haipai = SeatFields(l, i)[1]
                     /\ k.action_tables[i + 1].takes = SeatFields(l, i)[2]
                     /\ k.action_tables[i + 1].discards = SeatFields(l, i)[3]
                     /\ Len(k.action_tables[i + 1].haipai) = 13
                /\ k.meta = l.meta
                /\ k.scoreboard = l.scoreboard
                /\ k.dora_indicators = l.dora_indicators
                /\ k.ura_indicators = l.ura_indicators

C9_Witness ==
    /\ hist.op = "from"
    /\ log.st = "ok"
    /\ Len(log.val.kyokus) = 3
    /\ log.val.kyokus[1].meta # log.val.kyokus[2].meta
    /\ log.val.kyokus[2].meta # log.val.kyokus[3].meta
    /\ \A j \in 1..3 : \A i \in 1..4 : \A m \in 1..4 :
          i # m => log.val.kyokus[j].action_tables[i] # log.val.kyokus[j].action_tables[m]

----------------------------------------------------------------------------
(* has_aka *)

AnyCounterNonzero(rule) ==
    rule.aka # 0 \/ rule.aka51 # 0 \/ rule.aka52 # 0 \/ rule.aka53 # 0

\* C8: for all four u8 counters the conversion completes, and has_aka is true
\* iff at least one counter is nonzero, also when their sum exceeds 255.
C8_HasAka ==
    hist.op = "from" =>
        /\ log.st = "ok"
        /\ log.val.has_aka = AnyCounterNonzero(hist.before.rule)

(* ActionItem *)

\* C10: the wire integer 60 always decodes to Tsumogiri, Tsumogiri is produced
\* for the wire value 60 only, and a JSON string always decodes to Naki.
C10_TsumogiriOnly60 ==
    hist.op = "ActionItem" =>
        /\ wire = JNum(Tsumogiri60) => item.tag = "Tsumogiri"
        /\ item.tag = "Tsumogiri" => wire = JNum(Tsumogiri60)
        /\ wire.k = "str" => item.tag = "Naki"

====
